---------------------------- MODULE Spec2Model ----------------------------
(***************************************************************************)
(* A model of doc/source/ext/generate_module_rst.py: the classifier        *)
(* predicates, the look-ahead test do_visit_module, the template layer and  *)
(* the breadth-first traversal traverse_module_bfs that writes one rst      *)
(* document per visited module.                                             *)
(*                                                                         *)
(* Python strings that the code inspects (names, `in` substring tests) are  *)
(* sequences of one-character strings.  Rendered text is a sequence of      *)
(* chunks: the literal pieces of a template (TLA+ strings) and the values   *)
(* substituted into it; the empty Python string is the empty sequence.      *)
(***************************************************************************)
EXTENDS Integers, Sequences, FiniteSets, TLC

\* ------------------------------------------------------------------ bounds
\* Number of public attributes the imported library adds on top of the fixed
\* part of its namespace (see FixedAttributes).
MaxEdges == 4
\* The same, where the script is run a second time.
MaxRerunEdges == 3
\* Number of (argument types -> implementation) pairs of a dispatcher.
MaxFuncs == 2

\* ----------------------------------------------------------------- strings
Contains(s, sub) ==
    \E k \in 0..(Len(s) - Len(sub)) : SubSeq(s, k + 1, k + Len(sub)) = sub

\* str.replace(old, new) for one-character old and new
Replace(s, old, new) == [k \in 1..Len(s) |-> IF s[k] = old THEN new ELSE s[k]]

\* str.split('.')[-1]: the part after the last dot
RECURSIVE LastSegment(_)
LastSegment(s) ==
    IF \E k \in 1..Len(s) : s[k] = "."
    THEN LastSegment(Tail(s))
    ELSE s

\* sep.join(list) on lists of chunk texts; sep is one literal chunk
RECURSIVE Join(_, _)
Join(sep, list) ==
    IF list = <<>> THEN <<>>
    ELSE IF Len(list) = 1 THEN list[1]
    ELSE list[1] \o <<sep>> \o Join(sep, Tail(list))

Dot == <<".">>

n_gpflow == <<"g","p","f","l","o","w">>
n_a == <<"g","p","f","l","o","w",".","a">>
n_k == <<"g","p","f","l","o","w",".","k">>
n_ks == <<"g","p","f","l","o","w",".","k",".","s">>
n_ab == <<"g","p","f","l","o","w",".","a",".","b">>
n_abc == <<"g","p","f","l","o","w",".","a",".","b",".","c">>
n_abcd == <<"g","p","f","l","o","w",".","a",".","b",".","c",".","d">>
n_abcde == <<"g","p","f","l","o","w",".","a",".","b",".","c",".","d",".","e">>
n_abcdef == <<"g","p","f","l","o","w",".","a",".","b",".","c",".","d",".","e",".","f">>
n_versions == <<"g","p","f","l","o","w",".","v","e","r","s","i","o","n","s">>
n_init == <<"g","p","f","l","o","w",".","_","_","i","n","i","t","_","_">>
n_dispatcher == <<"m","u","l","t","i","p","l","e","d","i","s","p","a","t","c","h",".","d","i","s","p","a","t","c","h","e","r">>
n_builtins == <<"b","u","i","l","t","i","n","s">>

\* --------------------------------------------------------------- constants
NAMESPACE == <<"g","p","f","l","o","w">>
INIT_TOKEN == <<"_","_","i","n","i","t","_","_">>

RST_LEVEL_SYMBOLS == <<"=", "-", "~", "\"", "'", "^">>

IGNORE_MODULES ==
    { <<"g","p","f","l","o","w",".","c","o","v","a","r","i","a","n","c","e","s",".","d","i","s","p","a","t","c","h">>,
      <<"g","p","f","l","o","w",".","c","o","n","d","i","t","i","o","n","a","l","s",".","d","i","s","p","a","t","c","h">>,
      <<"g","p","f","l","o","w",".","e","x","p","e","c","t","a","t","i","o","n","s",".","d","i","s","p","a","t","c","h">>,
      <<"g","p","f","l","o","w",".","k","u","l","l","b","a","c","k","_","l","e","i","b","l","e","r","s",".","d","i","s","p","a","t","c","h">>,
      <<"g","p","f","l","o","w",".","v","e","r","s","i","o","n","s">> }

\* ----------------------------------------------------- the reflected objects
\* The library's objects, by handle.  Modules:
Modules == { "gpflow", "gpflow.a", "gpflow.k", "gpflow.k.s", "gpflow.a.b",
             "gpflow.a.b.c", "gpflow.a.b.c.d", "gpflow.a.b.c.d.e",
             "gpflow.a.b.c.d.e.f", "gpflow.versions" }
\* classes X (defined in gpflow.k.s) and Z (defined in gpflow.a.b.c.d.e.f),
\* functions y (defined in gpflow.a) and g (defined in gpflow.__init__),
\* the dispatcher d, and the integer 1 (an object without __name__).
Classes == { "X", "Z" }
Functions == { "y", "g" }
Dispatchers == { "d" }
Others == { "1" }
Objects == Modules \cup Classes \cup Functions \cup Dispatchers \cup Others

\* hasattr(o, '__name__')
HasName(o) == o \notin Others

\* o.__name__
Name(o) ==
    CASE o = "gpflow" -> n_gpflow
      [] o = "gpflow.a" -> n_a
      [] o = "gpflow.k" -> n_k
      [] o = "gpflow.k.s" -> n_ks
      [] o = "gpflow.a.b" -> n_ab
      [] o = "gpflow.a.b.c" -> n_abc
      [] o = "gpflow.a.b.c.d" -> n_abcd
      [] o = "gpflow.a.b.c.d.e" -> n_abcde
      [] o = "gpflow.a.b.c.d.e.f" -> n_abcdef
      [] o = "gpflow.versions" -> n_versions
      [] OTHER -> <<o>>

\* o.__module__ (for the dispatcher: its type's, multipledispatch.dispatcher)
DeclaringModule(o) ==
    CASE o = "X" -> n_ks
      [] o = "Z" -> n_abcdef
      [] o = "y" -> n_a
      [] o = "g" -> n_init
      [] o = "d" -> n_dispatcher
      [] OTHER -> n_builtins

\* -------------------------------------------------------------- classifier
is_documentable_module(m) ==
    /\ m \in Modules
    /\ Contains(Name(m), NAMESPACE)
    /\ Name(m) \notin IGNORE_MODULES

is_documentable_component(m) ==
    IF m \in Functions
    THEN Contains(DeclaringModule(m), NAMESPACE) /\ DeclaringModule(m) \notin IGNORE_MODULES
    ELSE IF m \in Classes
    THEN Contains(DeclaringModule(m), NAMESPACE) /\ DeclaringModule(m) \notin IGNORE_MODULES
    ELSE IF m \in Dispatchers
    THEN TRUE
    ELSE FALSE

is_documentable(m) == is_documentable_component(m) \/ is_documentable_module(m)


\* ------------------------------------------------------------ template layer
\* A literal piece of text, as a chunk.
Lit(s) == <<s>>

RST_PATH == "source/"

SPHINX_CLASS_STRING(object_name, level) ==
    << Lit("\n"), object_name, Lit("\n"), level,
       Lit("\n\n.. autoclass:: "), object_name,
       Lit("\n   :show-inheritance:\n   :members:\n") >>

SPHINX_MULTIDISPATCH_STRING(object_name, level, content) ==
    << Lit("\n"), object_name, Lit("\n"), level,
       Lit("\n\nThis function uses multiple dispatch, which will depend on the type of argument passed in:\n\n") >>
    \o content \o << Lit("\n") >>

SPHINX_MULTIDISPATCH_COMPONENT_STRING(dispatch_name, args, true_name) ==
    << Lit("\n.. code-block:: python\n\n    "), dispatch_name, Lit("( ") >>
    \o args
    \o << Lit(" )\n    # dispatch to -> "), true_name,
          Lit("(...)\n\n\n.. autofunction:: "), true_name, Lit("\n") >>

SPHINX_FUNC_STRING(object_name, level) ==
    << Lit("\n"), object_name, Lit("\n"), level,
       Lit("\n\n.. autofunction:: "), object_name, Lit("\n") >>

SPHINX_INCLUDE_MODULE_STRING(name, level, module) ==
    << Lit("\n"), name, Lit("\n"), level,
       Lit("\n.. toctree::\n   :maxdepth: 1\n\n   "), module, Lit("/index\n") >>

\* (the backquotes around generate_rst.py are written as apostrophes: a TLA+
\* string cannot hold a backquote)
SPHINX_FILE_STRING(title, date, content) ==
    << Lit("==========\n"), title,
       Lit("\n========\n\n.. THIS IS AN AUTOGENERATED RST FILE\n.. GENERATED BY 'generate_rst.py'\n.. DATE: "),
       date, Lit("\n\n\n") >>
    \o content \o << Lit("\n") >>

\* RST_LEVEL_SYMBOLS[level]: Python indexes from 0 and raises IndexError
\* from len(RST_LEVEL_SYMBOLS) on.
LevelInRange(level) == level < Len(RST_LEVEL_SYMBOLS)

\* RST_LEVEL_SYMBOLS[level]*6
LevelUnderline(level) == [k \in 1..6 |-> RST_LEVEL_SYMBOLS[level + 1]]

\* The argument types and the implementations a dispatcher can register.
ArgTypes == { "int", "str" }
Impls == { "f1", "f2" }
ImplModule(f) == IF f = "f1" THEN n_a ELSE n_k
\* An entry of Dispatcher.funcs: (argument types, implementation)
Signatures == { <<>>, <<"int">>, <<"int", "str">> }
FuncEntries == [args : Signatures, fname : Impls]

\* (a variant that skips a registration without argument types)
RECURSIVE MultidispatchContentList_SkipsNullary(_, _)
MultidispatchContentList_SkipsNullary(dispatch_name, items) ==
    IF items = <<>> THEN <<>>
    ELSE LET args == items[1].args
             fname == items[1].fname
             arg_names == Join(Lit(", "), [k \in 1..Len(args) |-> << <<args[k]>> >>])
             alias_name == ImplModule(fname) \o Dot \o <<fname>>
         IN  (IF args = << >> THEN << >>
              ELSE << SPHINX_MULTIDISPATCH_COMPONENT_STRING(dispatch_name, arg_names, alias_name) >>)
             \o MultidispatchContentList_SkipsNullary(dispatch_name, Tail(items))

RECURSIVE MultidispatchContentList(_, _)
MultidispatchContentList(dispatch_name, items) ==
    IF items = <<>> THEN <<>>
    ELSE LET args == items[1].args
             fname == items[1].fname
             arg_names == Join(Lit(", "), [k \in 1..Len(args) |-> << <<args[k]>> >>])
             alias_name == ImplModule(fname) \o Dot \o <<fname>>
         IN  << SPHINX_MULTIDISPATCH_COMPONENT_STRING(dispatch_name, arg_names, alias_name) >>
             \o MultidispatchContentList(dispatch_name, Tail(items))

\* level is the underline text the caller passes
get_multidispatch_string(md_component, module, level, items) ==
    LET dispatch_name == Name(module) \o Dot \o Name(md_component)
        content_list == MultidispatchContentList(dispatch_name, items)
        content == Join(Lit("\n"), content_list)
    IN  SPHINX_MULTIDISPATCH_STRING(dispatch_name, level, content)

get_component_rst_string(module, component, level, items) ==
    LET object_name == Name(module) \o Dot \o Name(component)
        level_underline == LevelUnderline(level)
    IN  IF component \in Classes
        THEN SPHINX_CLASS_STRING(object_name, level_underline)
        ELSE IF component \in Functions
        THEN SPHINX_FUNC_STRING(object_name, level_underline)
        ELSE IF component \in Dispatchers
        THEN get_multidispatch_string(component, module, level_underline, items)
        ELSE <<>>

get_module_rst_string(module, level) ==
    SPHINX_INCLUDE_MODULE_STRING(Name(module), LevelUnderline(level),
                                 LastSegment(Name(module)))

\* The path of the file written for node_name
PathToFile(node_name) ==
    << Lit(RST_PATH), Lit("/"), Replace(node_name, ".", "/"), Lit("/index.rst") >>

write_to_rst_file(fs, node_name, rst_content, date_string) ==
    LET path_to_file == PathToFile(node_name)
        rst_file == SPHINX_FILE_STRING(node_name, date_string, rst_content)
    IN  [p \in (DOMAIN fs) \cup {path_to_file} |->
            IF p = path_to_file THEN rst_file ELSE fs[p]]


\* --------------------------------------------------------------------- state
VARIABLES
    attrs,           \* module -> its public attributes' values, in dir() order
    funcs,           \* the dispatcher's registry `funcs`, in items() order
    addr,            \* object -> id(object) in the running interpreter
    date,            \* DATE_STRING of the running interpreter
    root,            \* the object the traversal was started on
    pc,              \* "import", "loop", "children", "done", "crashed"
    queue,           \* traverse_module_bfs: queue of [node, level]
    enqueued_items,  \* traverse_module_bfs: set of ids
    node, level,     \* traverse_module_bfs: the entry popped last (None and 0
                     \* before the first pop and after the return)
    idx,             \* position of `child` in get_public_attributes(node)
    rst_components,  \* traverse_module_bfs: rendered component entries
    rst_modules,     \* traverse_module_bfs: rendered module-link entries
    files,           \* the file system below RST_PATH: path -> text
    log,             \* history: the entries rendered so far, in order
    run,             \* 1: first run of the script, 2: a re-run
    prev_files,      \* the files the first run left
    md_out           \* result of a direct call of get_multidispatch_string
                     \* (<< >> before the call; a rendered section is never empty)

vars == << attrs, funcs, addr, date, root, pc, queue, enqueued_items, node,
           level, idx, rst_components, rst_modules, files, log, run,
           prev_files, md_out >>

None == "None"

\* id(o)
Id(o) == addr[o]

\* Two interpreter runs place the objects at different addresses.
ObjectOrder ==
    << "gpflow", "gpflow.a", "gpflow.k", "gpflow.k.s", "gpflow.a.b",
       "gpflow.a.b.c", "gpflow.a.b.c.d", "gpflow.a.b.c.d.e",
       "gpflow.a.b.c.d.e.f", "gpflow.versions", "X", "Z", "y", "g", "d", "1" >>
Position(o) == CHOOSE k \in 1..Len(ObjectOrder) : ObjectOrder[k] = o
Layout(r) ==
    [o \in Objects |-> IF r = 1 THEN Position(o)
                       ELSE Len(ObjectOrder) + 1 - Position(o)]

\* datetime.now() formatted "%d/%m/%y": the day of the first run, and the days a
\* re-run can fall on
FirstDate == <<"01/11/19">>
Dates == { <<"01/11/19">>, <<"02/11/19">> }

\* The part of the library's namespace that is the same in every run:
\* gpflow.k.s defines class X; gpflow.a.b ... gpflow.a.b.c.d.e.f is a chain of
\* nested packages whose innermost module defines class Z.
FixedAttributes ==
    [m \in Modules |->
        CASE m = "gpflow.k.s" -> << "X" >>
          [] m = "gpflow.a.b" -> << "gpflow.a.b.c" >>
          [] m = "gpflow.a.b.c" -> << "gpflow.a.b.c.d" >>
          [] m = "gpflow.a.b.c.d" -> << "gpflow.a.b.c.d.e" >>
          [] m = "gpflow.a.b.c.d.e" -> << "gpflow.a.b.c.d.e.f" >>
          [] m = "gpflow.a.b.c.d.e.f" -> << "Z" >>
          [] OTHER -> << >>]

\* The modules whose public attributes vary, and what each may hold.
Packages == { "gpflow", "gpflow.a", "gpflow.k" }
Candidates(m) ==
    CASE m = "gpflow" -> { "gpflow.a", "gpflow.k", "X", "y" }
      [] m = "gpflow.a" -> { "y", "X", "g", "gpflow", "gpflow.a.b" }
      [] m = "gpflow.k" -> { "gpflow.k.s", "X", "d", "gpflow.versions", "gpflow.a" }

Edges == Len(attrs["gpflow"]) + Len(attrs["gpflow.a"]) + Len(attrs["gpflow.k"])

DefaultFuncs ==
    << [args |-> <<"int">>, fname |-> "f1"],
       [args |-> <<"int", "str">>, fname |-> "f2"] >>

Roots == { "gpflow", "gpflow.versions", "1" }

\* ------------------------------------------------------------------ traversal
\* (a variant that returns the attributes in the order of their addresses, as
\* iterating a set of them would)
RECURSIVE InsertById(_, _)
InsertById(sorted, o) ==
    IF sorted = << >> THEN << o >>
    ELSE IF Id(o) <= Id(Head(sorted)) THEN << o >> \o sorted
    ELSE << Head(sorted) >> \o InsertById(Tail(sorted), o)
RECURSIVE SortById(_)
SortById(seq) ==
    IF seq = << >> THEN << >>
    ELSE InsertById(SortById(Tail(seq)), Head(seq))
get_public_attributes_ByAddress(n) == SortById(attrs[n])

\* [getattr(node, a) for a in dir(node) if not a.startswith('_')]: dir() is
\* sorted by attribute name, the same in every run
get_public_attributes(n) == attrs[n]

\* (a variant that compares the declaring module with the candidate's name and
\* with the root package's instead of searching it)
RECURSIVE DoVisitScan_Equal(_, _, _)
DoVisitScan_Equal(children, module, enqueued) ==
    IF children = <<>> THEN FALSE
    ELSE LET child == Head(children) IN
         IF is_documentable_module(child) /\ Id(child) \notin enqueued
         THEN TRUE
         ELSE IF /\ is_documentable_component(child)
                 /\ Id(child) \notin enqueued
                 /\ \/ DeclaringModule(child) = n_gpflow
                    \/ DeclaringModule(child) = Name(module)
         THEN TRUE
         ELSE DoVisitScan_Equal(Tail(children), module, enqueued)

RECURSIVE DoVisitScan(_, _, _)
DoVisitScan(children, module, enqueued) ==
    IF children = <<>> THEN FALSE
    ELSE LET child == Head(children) IN
         IF is_documentable_module(child) /\ Id(child) \notin enqueued
         THEN TRUE
         ELSE IF /\ is_documentable_component(child)
                 /\ Id(child) \notin enqueued
                 /\ \/ Contains(DeclaringModule(child), INIT_TOKEN)
                    \/ Contains(DeclaringModule(child), Name(module))
         THEN TRUE
         ELSE DoVisitScan(Tail(children), module, enqueued)

do_visit_module(module, enqueued) ==
    DoVisitScan(get_public_attributes(module), module, enqueued)

\* set([id(r)]): the visited set the traversal is started with
InitialEnqueued(r) == { Id(r) }

\* (a variant that forgets to record the id)
Mark_Forgets(enqueued, o) == enqueued

\* enqueued_items.add(id(o))
Mark(enqueued, o) == enqueued \cup { Id(o) }

\* (a variant that puts the entry at the head: a stack, depth-first)
Enqueue_AtHead(q, entry) == << entry >> \o q

\* queue.append(entry)
Enqueue(q, entry) == Append(q, entry)

\* (a variant that reads the head and leaves it in the queue)
Rest_KeepsHead(q) == q

\* what queue.pop(0) leaves in the queue
Rest(q) == Tail(q)

\* (a variant without the check)
IsEnqueued_Never(enqueued, o) == FALSE

\* id(o) in enqueued_items
IsEnqueued(enqueued, o) == Id(o) \in enqueued

\* (a variant that writes every module's document)
HasContent_Always(rst_content) == TRUE

\* if rst_content: (a Python string is true unless it is empty)
HasContent(rst_content) == rst_content # << >>

Children == get_public_attributes(node)
Child == Children[idx]

Init ==
    /\ attrs = FixedAttributes
    /\ funcs = DefaultFuncs
    /\ addr = Layout(1)
    /\ date = FirstDate
    /\ root = None
    /\ pc = "import"
    /\ queue = << >>
    /\ enqueued_items = {}
    /\ node = None
    /\ level = 0
    /\ idx = 0
    /\ rst_components = << >>
    /\ rst_modules = << >>
    /\ files = << >>
    /\ log = << >>
    /\ run = 1
    /\ prev_files = << >>
    /\ md_out = << >>

\* `import gpflow` (line 24): the library binds one more public attribute.
AddAttribute(limit, m, o) ==
    /\ pc = "import"
    /\ Edges < limit
    /\ attrs' = [attrs EXCEPT ![m] = Append(@, o)]
    /\ UNCHANGED << funcs, addr, date, root, pc, queue, enqueued_items, node,
                    level, idx, rst_components, rst_modules, files, log, run,
                    prev_files, md_out >>

\* traverse_module_bfs([(r, 0)], set([id(r)])).  A root that is no documentable
\* module never reads the namespace: it is started on the fixed part alone.
\* A re-run starts on the root of the first run.
Start(r) ==
    /\ \/ pc = "import" /\ (r = "gpflow" \/ Edges = 0)
       \/ pc = "restart" /\ r = root
    /\ root' = r
    /\ queue' = << [node |-> r, level |-> 0] >>
    /\ enqueued_items' = InitialEnqueued(r)
    /\ pc' = "loop"
    /\ UNCHANGED << attrs, funcs, addr, date, node, level, idx, rst_components,
                    rst_modules, files, log, run, prev_files, md_out >>

\* queue.pop(0) of an object without __name__: continue
PopNoName ==
    /\ pc = "loop"
    /\ queue # << >>
    /\ ~HasName(Head(queue).node)
    /\ node' = Head(queue).node
    /\ level' = Head(queue).level
    /\ queue' = Rest(queue)
    /\ UNCHANGED << attrs, funcs, addr, date, root, pc, enqueued_items, idx,
                    rst_components, rst_modules, files, log, run, prev_files,
                    md_out >>

\* queue.pop(0) of a named object that is no documentable module
PopNotModule ==
    /\ pc = "loop"
    /\ queue # << >>
    /\ HasName(Head(queue).node)
    /\ ~is_documentable_module(Head(queue).node)
    /\ node' = Head(queue).node
    /\ level' = Head(queue).level
    /\ queue' = Rest(queue)
    /\ UNCHANGED << attrs, funcs, addr, date, root, pc, enqueued_items, idx,
                    rst_components, rst_modules, files, log, run, prev_files,
                    md_out >>

\* queue.pop(0) of a documentable module: start the loop over its children
PopModule ==
    /\ pc = "loop"
    /\ queue # << >>
    /\ HasName(Head(queue).node)
    /\ is_documentable_module(Head(queue).node)
    /\ node' = Head(queue).node
    /\ level' = Head(queue).level
    /\ queue' = Rest(queue)
    /\ rst_components' = << >>
    /\ rst_modules' = << >>
    /\ idx' = 1
    /\ pc' = "children"
    /\ UNCHANGED << attrs, funcs, addr, date, root, enqueued_items, files, log,
                    run, prev_files, md_out >>

\* if id(child) in enqueued_items: continue
ChildVisited ==
    /\ pc = "children"
    /\ idx <= Len(Children)
    /\ IsEnqueued(enqueued_items, Child)
    /\ idx' = idx + 1
    /\ UNCHANGED << attrs, funcs, addr, date, root, pc, queue, enqueued_items,
                    node, level, rst_components, rst_modules, files, log, run,
                    prev_files, md_out >>

\* a new documentable component: render it and record its id
ChildComponent ==
    /\ pc = "children"
    /\ idx <= Len(Children)
    /\ ~IsEnqueued(enqueued_items, Child)
    /\ is_documentable_component(Child)
    /\ LevelInRange(level)
    /\ rst_components' =
           Append(rst_components, get_component_rst_string(node, Child, level, funcs))
    /\ enqueued_items' = Mark(enqueued_items, Child)
    /\ log' = Append(log, [kind |-> "component", obj |-> Child,
                           node |-> node, level |-> level])
    /\ idx' = idx + 1
    /\ UNCHANGED << attrs, funcs, addr, date, root, pc, queue, node, level,
                    rst_modules, files, run, prev_files, md_out >>

\* a new documentable module the look-ahead accepts: link it and enqueue it
ChildModuleVisit ==
    /\ pc = "children"
    /\ idx <= Len(Children)
    /\ ~IsEnqueued(enqueued_items, Child)
    /\ ~is_documentable_component(Child)
    /\ is_documentable_module(Child)
    /\ do_visit_module(Child, enqueued_items)
    /\ LevelInRange(level)
    /\ rst_modules' = Append(rst_modules, get_module_rst_string(Child, level))
    /\ queue' = Enqueue(queue, [node |-> Child, level |-> level + 1])
    /\ enqueued_items' = Mark(enqueued_items, Child)
    /\ log' = Append(log, [kind |-> "module", obj |-> Child,
                           node |-> node, level |-> level])
    /\ idx' = idx + 1
    /\ UNCHANGED << attrs, funcs, addr, date, root, pc, node, level,
                    rst_components, files, run, prev_files, md_out >>

\* a new documentable module the look-ahead rejects
ChildModuleSkip ==
    /\ pc = "children"
    /\ idx <= Len(Children)
    /\ ~IsEnqueued(enqueued_items, Child)
    /\ ~is_documentable_component(Child)
    /\ is_documentable_module(Child)
    /\ ~do_visit_module(Child, enqueued_items)
    /\ idx' = idx + 1
    /\ UNCHANGED << attrs, funcs, addr, date, root, pc, queue, enqueued_items,
                    node, level, rst_components, rst_modules, files, log, run,
                    prev_files, md_out >>

\* a new object that is neither
ChildOther ==
    /\ pc = "children"
    /\ idx <= Len(Children)
    /\ ~IsEnqueued(enqueued_items, Child)
    /\ ~is_documentable_component(Child)
    /\ ~is_documentable_module(Child)
    /\ idx' = idx + 1
    /\ UNCHANGED << attrs, funcs, addr, date, root, pc, queue, enqueued_items,
                    node, level, rst_components, rst_modules, files, log, run,
                    prev_files, md_out >>

\* rendering an entry at a level RST_LEVEL_SYMBOLS does not have: IndexError,
\* which nothing catches
ChildIndexError ==
    /\ pc = "children"
    /\ idx <= Len(Children)
    /\ ~IsEnqueued(enqueued_items, Child)
    /\ \/ is_documentable_component(Child)
       \/ is_documentable_module(Child) /\ do_visit_module(Child, enqueued_items)
    /\ ~LevelInRange(level)
    /\ pc' = "crashed"
    /\ UNCHANGED << attrs, funcs, addr, date, root, queue, enqueued_items, node,
                    level, idx, rst_components, rst_modules, files, log, run,
                    prev_files, md_out >>

\* after the last child: write the module's document if it has content
EndModule ==
    /\ pc = "children"
    /\ idx > Len(Children)
    /\ LET rst_content == Join(Lit("\n"), rst_components \o rst_modules) IN
       files' = IF HasContent(rst_content)
                THEN write_to_rst_file(files, Name(node), rst_content, date)
                ELSE files
    /\ pc' = "loop"
    /\ UNCHANGED << attrs, funcs, addr, date, root, queue, enqueued_items, node,
                    level, idx, rst_components, rst_modules, log, run,
                    prev_files, md_out >>

\* while queue: ends
Return ==
    /\ pc = "loop"
    /\ queue = << >>
    /\ pc' = "done"
    /\ UNCHANGED << attrs, funcs, addr, date, root, queue, enqueued_items, node,
                    level, idx, rst_components, rst_modules, files, log, run,
                    prev_files, md_out >>

\* The script is run again, in a new interpreter, on another day or the same,
\* over the same library: the objects get new addresses, DATE_STRING is computed
\* anew, and `files` and `log` record what this second run writes and renders.
NewProcess(d) ==
    /\ run = 1
    /\ pc \in { "done", "crashed" }
    /\ run' = 2
    /\ addr' = Layout(2)
    /\ date' = d
    /\ prev_files' = files
    /\ files' = << >>
    /\ log' = << >>
    /\ queue' = << >>
    /\ enqueued_items' = {}
    /\ node' = None
    /\ level' = 0
    /\ idx' = 0
    /\ rst_components' = << >>
    /\ rst_modules' = << >>
    /\ pc' = "restart"
    /\ UNCHANGED << attrs, funcs, root, md_out >>

\* A direct call get_multidispatch_string(d, module, RST_LEVEL_SYMBOLS[lvl]*6)
RenderDispatch(module, lvl) ==
    /\ md_out = << >>
    /\ md_out' = get_multidispatch_string("d", module, LevelUnderline(lvl), funcs)
    /\ UNCHANGED << attrs, funcs, addr, date, root, pc, queue, enqueued_items,
                    node, level, idx, rst_components, rst_modules, files, log,
                    run, prev_files >>

Traverse ==
    \/ \E r \in Roots : Start(r)
    \/ PopNoName
    \/ PopNotModule
    \/ PopModule
    \/ ChildVisited
    \/ ChildComponent
    \/ ChildModuleVisit
    \/ ChildModuleSkip
    \/ ChildOther
    \/ ChildIndexError
    \/ EndModule
    \/ Return

Next ==
    \/ \E m \in Packages : \E o \in Candidates(m) : AddAttribute(MaxEdges, m, o)
    \/ Traverse

Spec == Init /\ [][Next]_vars

\* Two runs of the script over one library.
NextRerun ==
    \/ \E m \in Packages : \E o \in Candidates(m) : AddAttribute(MaxRerunEdges, m, o)
    \/ Traverse
    \/ \E d \in Dates : NewProcess(d)

RerunSpec == Init /\ [][NextRerun]_vars

\* get_multidispatch_string on its own: the registries a dispatcher can hold
\* (a dict: no two entries with the same argument types), rendered once.
FuncLists ==
    { fl \in UNION { [1..n -> FuncEntries] : n \in 0..MaxFuncs } :
        \A i, j \in DOMAIN fl : i # j => fl[i].args # fl[j].args }

InitMD ==
    /\ funcs \in FuncLists
    /\ attrs = FixedAttributes
    /\ addr = Layout(1)
    /\ date = FirstDate
    /\ root = None
    /\ pc = "import"
    /\ queue = << >>
    /\ enqueued_items = {}
    /\ node = None
    /\ level = 0
    /\ idx = 0
    /\ rst_components = << >>
    /\ rst_modules = << >>
    /\ files = << >>
    /\ log = << >>
    /\ run = 1
    /\ prev_files = << >>
    /\ md_out = << >>

NextMD ==
    \E module \in { "gpflow.a", "gpflow.k" } :
        \E lvl \in 0..(Len(RST_LEVEL_SYMBOLS) - 1) : RenderDispatch(module, lvl)

SpecMD == InitMD /\ [][NextMD]_vars

\* The traversal is one sequential loop: whenever it can take a step it does.
FairSpec == Spec /\ WF_vars(Next)


\* ---------------------------------------------------------------- properties
HasDocument(m) == PathToFile(Name(m)) \in DOMAIN files

\* The places (module, position) where object o is a public attribute.
Occurrences(o) ==
    { mk \in Modules \X (1..(MaxEdges + 2)) :
        mk[2] <= Len(attrs[mk[1]]) /\ attrs[mk[1]][mk[2]] = o }

\* The modules that were put in the queue so far.
EverEnqueued ==
    { root } \cup { log[k].obj : k \in { n \in DOMAIN log : log[n].kind = "module" } }

NoDuplicates(seq) == \A i, j \in DOMAIN seq : seq[i] = seq[j] => i = j

\* C1: no object identity is emitted more than once: over the whole run every
\* object has at most one rendered entry (component entry or module link),
\* the entries collected for the current document are pairwise different, the
\* root is never linked, and a module is in the queue at most once, each
\* queued module other than the root having been linked exactly once.
C1_EmittedAtMostOnce ==
    /\ \A i, j \in DOMAIN log : log[i].obj = log[j].obj => i = j
    /\ \A k \in DOMAIN log : log[k].obj # root
    /\ NoDuplicates(rst_components \o rst_modules)
    /\ \A i, j \in DOMAIN queue : queue[i].node = queue[j].node => i = j
    /\ \A i \in DOMAIN queue : queue[i].node \in EverEnqueued

\* A finished run in which a component that two visited modules (or two names
\* of one module) alias was rendered, and a visited module refers back to the
\* root.
C1_Witness ==
    /\ pc = "done"
    /\ \E k \in DOMAIN log :
          /\ log[k].kind = "component"
          /\ \E p, q \in Occurrences(log[k].obj) :
                p # q /\ p[1] \in EverEnqueued /\ q[1] \in EverEnqueued
    /\ \E m \in EverEnqueued : m # root /\ Occurrences(root) # {} /\
          \E p \in Occurrences(root) : p[1] = m

\* C9: the traversal is breadth-first: the depths in the queue never decrease
\* from head to tail and span at most two consecutive values, every queued
\* depth is the depth of the module processed last or one more, and entries
\* are rendered (modules are processed) in non-decreasing depth order.
C9_BreadthFirst ==
    /\ \A i, j \in DOMAIN queue : i < j => queue[i].level <= queue[j].level
    /\ queue # << >> => queue[Len(queue)].level - queue[1].level <= 1
    /\ node # None =>
          \A i \in DOMAIN queue :
              level <= queue[i].level /\ queue[i].level <= level + 1
    /\ \A i, j \in DOMAIN log : i < j => log[i].level <= log[j].level
    /\ pc = "loop" /\ node = None => queue = << [node |-> root, level |-> 0] >>

\* The queue holds modules of two depths while a module is being processed.
C9_Witness ==
    /\ pc = "children"
    /\ Len(queue) >= 2
    /\ queue[1].level = level
    /\ queue[Len(queue)].level = level + 1

\* C4: between two iterations of the loop, a module has a written document if
\* and only if an entry (component or module link) was collected for it; so a
\* module all of whose documentable attributes were rendered for other
\* modules has no document.
C4_DocumentIffEntries ==
    pc \in { "loop", "done" } =>
        /\ \A m \in Modules :
              HasDocument(m) <=> \E k \in DOMAIN log : log[k].node = m
        /\ \A m \in Modules :
              (\A p \in 1..Len(attrs[m]) :
                  is_documentable(attrs[m][p]) =>
                      \E k \in DOMAIN log :
                          log[k].obj = attrs[m][p] /\ log[k].node # m)
              => ~HasDocument(m)
        /\ Cardinality(DOMAIN files) =
              Cardinality({ log[k].node : k \in DOMAIN log })

\* A finished run that wrote the root's document and none for a module that
\* was dequeued with public attributes, all of them rendered elsewhere.
C4_Witness ==
    /\ pc = "done"
    /\ HasDocument(root)
    /\ \E m \in EverEnqueued :
          /\ m # root
          /\ attrs[m] # << >>
          /\ ~HasDocument(m)


\* The documentable modules reachable from the root in at most k steps through
\* public attributes of documentable modules.
RECURSIVE ReachWithin(_)
ReachWithin(k) ==
    IF k = 0 THEN { m \in { root } : is_documentable_module(m) }
    ELSE LET prev == ReachWithin(k - 1) IN
         prev \cup { c \in Modules :
                       /\ is_documentable_module(c)
                       /\ \E m \in prev : \E p \in 1..Len(attrs[m]) : attrs[m][p] = c }

Reachable == ReachWithin(Cardinality(Modules))

\* The length of the shortest such path to m.
GraphDepth(m) == CHOOSE k \in 0..Cardinality(Modules) :
                    m \in ReachWithin(k) /\ (k > 0 => m \notin ReachWithin(k - 1))

Holds(m, o) == \E p \in 1..Len(attrs[m]) : attrs[m][p] = o

Components == { o \in Objects : is_documentable_component(o) }

\* o has a component entry in the document of m
RenderedIn(o, m) ==
    \E k \in DOMAIN log :
        log[k].kind = "component" /\ log[k].obj = o /\ log[k].node = m

\* The depth with which module m was put in the queue.
DequeueLevel(m) ==
    IF m = root THEN 0
    ELSE LET k == CHOOSE n \in DOMAIN log : log[n].kind = "module" /\ log[n].obj = m
         IN  log[k].level + 1

\* The queued-so-far documentable modules that hold o.
VisitedHolders(o) ==
    { m \in EverEnqueued : is_documentable_module(m) /\ Holds(m, o) }

C3_Original ==
    pc = "done" =>
        \A o \in Components :
            (\E m \in Reachable : Holds(m, o)) =>
                Cardinality({ k \in DOMAIN log :
                                /\ log[k].kind = "component"
                                /\ log[k].obj = o
                                /\ HasDocument(log[k].node) }) = 1

\* C10 as claimed: when the traversal has finished, every module linked from a
\* written document has a document of its own.
C10_Original ==
    pc = "done" =>
        \A k \in DOMAIN log :
            log[k].kind = "module" /\ HasDocument(log[k].node)
                => HasDocument(log[k].obj)

\* The ids of the public attributes of m.
AttributeIds(m) == { Id(attrs[m][p]) : p \in 1..Len(attrs[m]) }

\* The look-ahead test as the claim C5 words it.
ClaimedVisit(m, visited) ==
    \E p \in 1..Len(attrs[m]) :
        LET child == attrs[m][p] IN
        \/ is_documentable_module(child) /\ Id(child) \notin visited
        \/ /\ is_documentable_component(child)
           /\ Id(child) \notin visited
           /\ \/ DeclaringModule(child) = Name("gpflow")
              \/ DeclaringModule(child) = Name(m)

\* C5 as claimed: do_visit_module is true exactly if some public attribute is
\* an unvisited documentable module, or an unvisited documentable component
\* declared in the root package or in the candidate module itself.
C5_Original ==
    /\ pc = "import" =>
          \A m \in Modules : \A visited \in SUBSET AttributeIds(m) :
              is_documentable_module(m) =>
                  (do_visit_module(m, visited) <=> ClaimedVisit(m, visited))
    /\ pc = "children" /\ idx <= Len(Children) /\ is_documentable_module(Child) =>
          (do_visit_module(Child, enqueued_items) <=> ClaimedVisit(Child, enqueued_items))

\* What the look-ahead test computes: some public attribute is an unvisited
\* documentable module, or an unvisited documentable component whose
\* __module__ string contains '__init__' or contains the candidate module's
\* name (so also a component declared in a submodule of the candidate).
WorthVisiting(m, visited) ==
    \E p \in 1..Len(attrs[m]) :
        LET child == attrs[m][p] IN
        \/ is_documentable_module(child) /\ Id(child) \notin visited
        \/ /\ is_documentable_component(child)
           /\ Id(child) \notin visited
           /\ \/ Contains(DeclaringModule(child), INIT_TOKEN)
              \/ Contains(DeclaringModule(child), Name(m))

\* C5, amended: do_visit_module(m, visited) is true exactly if WorthVisiting:
\* some public attribute is an unvisited documentable module, or an unvisited
\* documentable component whose __module__ contains '__init__' or the name of
\* m.  Checked for every namespace the library can have with every set of its
\* attributes' ids as the visited set, and at every call the traversal makes.
C5_DoVisitModule ==
    /\ pc = "import" =>
          \A m \in Modules : \A visited \in SUBSET AttributeIds(m) :
              is_documentable_module(m) =>
                  (do_visit_module(m, visited) <=> WorthVisiting(m, visited))
    /\ pc = "children" /\ idx <= Len(Children) /\ is_documentable_module(Child) =>
          (do_visit_module(Child, enqueued_items) <=> WorthVisiting(Child, enqueued_items))

\* The look-ahead accepted gpflow.k, whose only public attribute is class X
\* declared in its submodule gpflow.k.s, and rejected gpflow.a, that holds X too.
C5_Witness ==
    /\ attrs["gpflow.k"] = << "X" >>
    /\ attrs["gpflow.a"] = << "X" >>
    /\ "gpflow.k" \in EverEnqueued
    /\ pc = "done"
    /\ "gpflow.a" \notin EverEnqueued
    /\ Holds("gpflow", "gpflow.a")


\* C6 as claimed: whenever the traversal can take no further step, it has
\* returned with an empty queue.
C6_Original == (pc = "done" /\ queue = << >>) \/ ENABLED Next

\* C6, amended: the traversal terminates on every namespace: it returns with
\* an empty queue, unless it has to render an entry at a depth that
\* RST_LEVEL_SYMBOLS does not have, where the IndexError ends it.
C6_Terminates ==
    <>(\/ pc = "done" /\ queue = << >>
       \/ pc = "crashed" /\ ~LevelInRange(level))

\* A finished run over a namespace in which gpflow.a is bound to two names and
\* refers back to the root; gpflow.a was dequeued.
C6_Witness ==
    /\ pc = "done"
    /\ queue = << >>
    /\ "gpflow.a" \in EverEnqueued
    /\ Holds("gpflow.a", "gpflow")
    /\ Cardinality(Occurrences("gpflow.a")) >= 2


\* The files with the value of their DATE line blanked.
StripDate(fs) == [p \in DOMAIN fs |-> [fs[p] EXCEPT ![4] = Lit("")]]

\* C7: a second run of the script over the same library, in a new interpreter
\* (other object addresses, DATE_STRING computed anew), writes the same files
\* with the same content as the first, apart from the DATE line; on the same
\* day the files are identical.
C7_Deterministic ==
    run = 2 /\ pc \in { "done", "crashed" } =>
        /\ StripDate(files) = StripDate(prev_files)
        /\ date = FirstDate => files = prev_files

\* A finished second run, on another day, that wrote two documents or more,
\* one of them with two entries or more.
C7_Witness ==
    /\ run = 2
    /\ pc = "done"
    /\ date # FirstDate
    /\ files # prev_files
    /\ Cardinality(DOMAIN files) >= 2
    /\ \E m \in Modules :
          Cardinality({ k \in DOMAIN log : log[k].node = m }) >= 2


\* Reading a rendered multi-dispatch section back: where its component blocks
\* start, and where the argument list of the block starting at p closes.
BlockStarts ==
    { p \in DOMAIN md_out : md_out[p] = Lit("\n.. code-block:: python\n\n    ") }
NthBlockStart(i) ==
    CHOOSE p \in BlockStarts : Cardinality({ q \in BlockStarts : q < p }) = i - 1
ArgsClose(p) ==
    CHOOSE c \in p..Len(md_out) :
        /\ md_out[c] = Lit(" )\n    # dispatch to -> ")
        /\ \A b \in p..(c - 1) : md_out[b] # Lit(" )\n    # dispatch to -> ")
IsArgSeparator(chunk) == chunk = Lit(", ")
IsArgName(chunk) == ~IsArgSeparator(chunk)

\* C8: the section rendered for a dispatcher with N registered pairs has
\* exactly N component blocks, in the order of the registry; the i-th block
\* shows the name the section is headed with, the argument type names of the
\* i-th signature and, twice, the fully qualified name (declaring module and
\* function name) of the i-th implementation.
C8_OneBlockPerRegistration ==
    md_out # << >> =>
        /\ Cardinality(BlockStarts) = Len(funcs)
        /\ Cardinality({ p \in DOMAIN md_out :
                            md_out[p] = Lit("(...)\n\n\n.. autofunction:: ") }) = Len(funcs)
        /\ \A i \in 1..Len(funcs) :
              LET p == NthBlockStart(i)
                  c == ArgsClose(p)
                  true_name == ImplModule(funcs[i].fname) \o <<".", funcs[i].fname>>
              IN  /\ md_out[p + 1] = md_out[2]
                  /\ md_out[p + 2] = Lit("( ")
                  /\ SelectSeq(SubSeq(md_out, p + 3, c - 1), IsArgName)
                        = [k \in 1..Len(funcs[i].args) |-> << funcs[i].args[k] >>]
                  /\ Len(SelectSeq(SubSeq(md_out, p + 3, c - 1), IsArgSeparator))
                        = (IF funcs[i].args = << >> THEN 0 ELSE Len(funcs[i].args) - 1)
                  /\ md_out[c + 1] = true_name
                  /\ md_out[c + 2] = Lit("(...)\n\n\n.. autofunction:: ")
                  /\ md_out[c + 3] = true_name

\* A rendered registry of two pairs or more with different implementations,
\* one of them registered without argument types.
C8_Witness ==
    /\ md_out # << >>
    /\ Len(funcs) >= 2
    /\ funcs[1].fname # funcs[2].fname
    /\ \E i \in DOMAIN funcs : funcs[i].args = << >>
    /\ \E i \in DOMAIN funcs : Len(funcs[i].args) = 2

=============================================================================
